---- MODULE Spec2Model ----
(***************************************************************************)
(* Model of the isolated-worker supervision engine of xlsx2pdf: the batch  *)
(* loops of main.py and scenario_converter.py, the worker process they     *)
(* spawn for each file, the log and pid queues and kill_process_tree.      *)
(*                                                                         *)
(* Time is the value of time.time() - start_time of the task under         *)
(* supervision, counted in ticks and saturating at MaxElapsed; the clock   *)
(* never runs backwards.  The pid of the Office application a worker       *)
(* launches is the number of the worker's task.  The batch loop keeps one  *)
(* Process object and one pid queue, those of the current task; a worker   *)
(* of an earlier task that is still alive is counted in lingering.       *)
(*                                                                         *)
(* ConverterSpec exercises what the worker runs, OfficeConverter of        *)
(* converter_interface.py and convert_worker, on file paths written as     *)
(* sequences of characters together with what the file system and the      *)
(* Office converter do for them.                                           *)
(***************************************************************************)
EXTENDS Integers, Sequences, FiniteSets, TLC

\* ---- bounds ----
NumFiles == 2
MaxLog == 2
MaxQueue == 2
TimeoutTicks == 1
MaxBatch == 2
MaxWorkers == 1

MaxElapsed == TimeoutTicks + 1
Files == 1..NumFiles

\* ---- program constants ----
NoPid == 0
NoExit == 99
SigTerm == 15
SigKill == 9

Drivers == {"main", "scenario"}

VARIABLES
    driver,            \* which batch driver runs: main.py or scenario_converter.py
    idx,               \* position of the for loop in the file list
    pc,                \* statement the batch loop is at
    success_count,
    error_count,
    error_files_list,  \* sequence of [file, label]
    excel_pid,         \* excel_pid / office_pid of the current task
    elapsed,           \* time.time() - start_time
    p,                 \* the worker process of the current task: [st, exitcode]
    exit_at,           \* value of elapsed when the current worker ended
    lingering,         \* number of workers of earlier tasks still alive
    log_queue,         \* the shared multiprocessing.Queue of log records
    pid_queue,         \* the pid queue of the current task
    ext,               \* the Office application of the current task
    produced,          \* number of records the current worker put on log_queue
    delivered,         \* records handed to root_logger.handle during this task
    snap,              \* the counters when the current pass began
    tree_call,         \* the kill_process_tree call made during the current pass
    input_files,       \* argument of convert_batch
    max_workers,       \* argument of convert_batch
    results,           \* the list convert_batch builds
    batch_pc,          \* statement convert_batch is at
    worker_run         \* a run of convert_worker: what convert gave, exit status

vars == <<driver, idx, pc, success_count, error_count, error_files_list,
          excel_pid, elapsed, p, exit_at, lingering, log_queue, pid_queue,
          ext, produced, delivered, snap, tree_call, input_files, max_workers,
          results, batch_pc, worker_run>>

\* the state of the batch driver and its worker
supvars == <<driver, idx, pc, success_count, error_count, error_files_list,
             excel_pid, elapsed, p, exit_at, lingering, log_queue, pid_queue,
             ext, produced, delivered, snap, tree_call>>

\* the state of a use of OfficeConverter
convvars == <<input_files, max_workers, results, batch_pc, worker_run>>

\* no call of kill_process_tree was made
NoTreeCall == [called |-> FALSE, found |-> FALSE, raised |-> FALSE,
               child |-> "none", triedRoot |-> FALSE]

\* p.is_alive(): the worker was started and has not ended
IsAlive == p.st \in {"running", "terminating", "killed"}

\* a worker that was sent SIGKILL executes nothing more
CanRun == p.st \in {"running", "terminating"}

\* faulty variant: the entry loses its label
EntryMutant(f, label) == [file |-> f, label |-> ""]

\* the string appended for file f: input_path followed by the label
Entry(f, label) == [file |-> f, label |-> label]

\* faulty variant: the "(Timeout)" entry is not looked up before a crash is counted
TimeoutNotListedMutant(list, f) == TRUE

\* f"{input_path} (Timeout)" not in error_files_list
TimeoutNotListed(list, f) ==
    \A i \in 1..Len(list) : list[i] # Entry(f, "Timeout")

\* faulty variant: the error is counted and nothing is appended
AppendErrorDropMutant(list, f, label) == list

\* faulty variant: the entry is put at the front of the list
AppendErrorMutant(list, f, label) == <<Entry(f, label)>> \o list

\* error_files_list.append(...)
AppendError(list, f, label) == Append(list, Entry(f, label))

\* faulty variant: the timeout branch is taken at the deadline already
DeadlinePassedMutant(t) == t >= TimeoutTicks

\* time.time() - start_time > timeout_seconds
DeadlinePassed(t) == t > TimeoutTicks

\* the worker put its pid on the pid queue of the current task
PidWasPut == pid_queue # <<>> \/ excel_pid # NoPid

\* ---- OfficeConverter (src/interface/converter_interface.py) ----

\* None where a string is expected, where a path is expected and as max_workers
None == "None"
NoPath == <<>>
NoWorkers == 0

UpperCase == <<"A", "B", "C", "D", "E", "F", "G", "H", "I", "J", "K", "L", "M",
               "N", "O", "P", "Q", "R", "S", "T", "U", "V", "W", "X", "Y", "Z">>
LowerCase == <<"a", "b", "c", "d", "e", "f", "g", "h", "i", "j", "k", "l", "m",
               "n", "o", "p", "q", "r", "s", "t", "u", "v", "w", "x", "y", "z">>

\* str.lower() on one character
LowerChar(c) ==
    IF \E i \in 1..26 : UpperCase[i] = c
    THEN LowerCase[CHOOSE i \in 1..26 : UpperCase[i] = c]
    ELSE c

\* str.lower()
Lower(str) == [i \in 1..Len(str) |-> LowerChar(str[i])]

\* position of the last "." of a file name, 0 if there is none
LastDot(name) ==
    IF \E i \in 1..Len(name) : name[i] = "."
    THEN CHOOSE i \in 1..Len(name) :
             name[i] = "." /\ \A j \in (i + 1)..Len(name) : name[j] # "."
    ELSE 0

\* Path(file_path).suffix: the last dot and what follows it, empty when the
\* name has no dot or only a leading one
Suffix(name) ==
    LET dot == LastDot(name)
    IN  IF dot <= 1 THEN <<>> ELSE SubSeq(name, dot, Len(name))

\* Path(input_file).stem + '.pdf'
PdfPath(name) ==
    LET dot == LastDot(name)
    IN  (IF dot <= 1 THEN name ELSE SubSeq(name, 1, dot - 1))
            \o <<".", "p", "d", "f">>

ExcelExts == {<<".", "x", "l", "s", "x">>, <<".", "x", "l", "s">>,
              <<".", "x", "l", "s", "m">>, <<".", "x", "l", "s", "b">>}
WordExts == {<<".", "d", "o", "c", "x">>, <<".", "d", "o", "c">>,
             <<".", "d", "o", "c", "m">>, <<".", "d", "o", "t", "x">>,
             <<".", "d", "o", "t", "m">>}
PowerPointExts == {<<".", "p", "p", "t", "x">>, <<".", "p", "p", "t">>,
                   <<".", "p", "p", "t", "m">>, <<".", "p", "p", "s", "x">>,
                   <<".", "p", "p", "s", "m">>, <<".", "p", "o", "t", "x">>,
                   <<".", "p", "o", "t", "m">>}

\* CONVERTER_MAP: extension -> file type
CONVERTER_MAP ==
    [e \in ExcelExts \cup WordExts \cup PowerPointExts |->
        IF e \in ExcelExts THEN "excel"
        ELSE IF e \in WordExts THEN "word" ELSE "powerpoint"]

\* self._converters after _initialize_converters
Converters ==
    [t \in {"excel", "word", "powerpoint"} |->
        IF t = "excel" THEN "ExcelConverter"
        ELSE IF t = "word" THEN "WordConverter" ELSE "PowerPointConverter"]

\* faulty variant: the extension is looked up as written, not lower-cased
IsSupportedMutant(name) == Suffix(name) \in DOMAIN CONVERTER_MAP

\* OfficeConverter.is_supported
IsSupported(name) == Lower(Suffix(name)) \in DOMAIN CONVERTER_MAP

\* OfficeConverter.get_converter: <<converter, file_type>>
GetConverter(name) ==
    LET e == Lower(Suffix(name))
    IN  IF e \notin DOMAIN CONVERTER_MAP
        THEN <<None, None>>
        ELSE <<Converters[CONVERTER_MAP[e]], CONVERTER_MAP[e]>>

\* the file paths the model feeds to the converter: a.xlsx, b.XLS, c.Docx,
\* d.ppt, e.txt and .xls (a name that is all "suffix" has none)
SamplePaths ==
    {<<"a", ".", "x", "l", "s", "x">>, <<"b", ".", "X", "L", "S">>,
     <<"c", ".", "D", "o", "c", "x">>, <<"d", ".", "p", "p", "t">>,
     <<"e", ".", "t", "x", "t">>, <<".", "x", "l", "s">>}

\* a path with what the environment does for it: the file is missing, or it
\* exists and ensure_dir raises, the converter's convert raises, or all is well
SampleFiles ==
    [path : SamplePaths, env : {"missing", "ensure_dir", "converter", "fine"}]

ConversionResult(input_path, output_path, success, error, file_type) ==
    [input_path |-> input_path, output_path |-> output_path,
     success |-> success, error |-> error, file_type |-> file_type]

\* the call returned value
Returned(value) == [raised |-> FALSE, value |-> value]
\* the call ended with an exception
Raised == [raised |-> TRUE,
           value |-> ConversionResult(NoPath, NoPath, FALSE, None, None)]

\* faulty variant: the success result carries no output path
ConvertMutant(f, output_path) ==
    Returned(ConversionResult(f.path, NoPath, TRUE, None, None))

\* OfficeConverter.convert(input_path, output_path)
Convert(f, output_path) ==
    LET converter == GetConverter(f.path)[1]
        file_type == GetConverter(f.path)[2]
    IN  IF f.env = "missing"
        THEN Returned(ConversionResult(f.path, NoPath, FALSE, "File not found",
                                       None))
        ELSE IF converter = None
        THEN Returned(ConversionResult(f.path, NoPath, FALSE,
                                       "Unsupported file type", None))
        ELSE IF f.env = "ensure_dir"
        THEN Raised
        ELSE IF f.env = "converter"
        THEN Returned(ConversionResult(f.path, NoPath, FALSE, "str(e)",
                                       file_type))
        ELSE Returned(ConversionResult(f.path, output_path, TRUE, None,
                                       file_type))

\* converter.convert was not reached
NotCalled == [raised |-> FALSE,
              value |-> ConversionResult(NoPath, NoPath, FALSE, None, None)]

\* faulty variant: a result with success == False is not turned into an exception
ConvertWorkerMutant(f, setup_raises) ==
    IF setup_raises
    THEN [called |-> FALSE, conv |-> NotCalled, exitcode |-> 1]
    ELSE [called |-> TRUE, conv |-> Convert(f, PdfPath(f.path)),
          exitcode |-> IF Convert(f, PdfPath(f.path)).raised THEN 1 ELSE 0]

\* convert_worker: whether converter.convert was reached, what it gave, and the
\* exit status of the process (1 when the function ends with an exception);
\* setup_raises: get_queue_logger or OfficeConverter(config) raises
ConvertWorker(f, setup_raises) ==
    IF setup_raises
    THEN [called |-> FALSE, conv |-> NotCalled, exitcode |-> 1]
    ELSE LET result == Convert(f, PdfPath(f.path))
         IN  [called |-> TRUE, conv |-> result,
              exitcode |-> IF result.raised THEN 1
                           ELSE IF ~result.value.success THEN 1 ELSE 0]

\* faulty variant: the newest result is put first
AppendResultMutant(list, result) == <<result>> \o list

\* results.append(result)
AppendResult(list, result) == Append(list, result)

\* the exit statuses convert_worker can end its process with
WorkerExitCodes ==
    {ConvertWorker(f, sr).exitcode : f \in SampleFiles, sr \in BOOLEAN}

\* no worker has run
NoWorkerRun == [called |-> FALSE, conv |-> NotCalled, exitcode |-> NoExit]


Init ==
    /\ driver \in Drivers
    /\ idx = 1
    /\ pc = "dispatch"
    /\ success_count = 0
    /\ error_count = 0
    /\ error_files_list = <<>>
    /\ excel_pid = NoPid
    /\ elapsed = 0
    /\ p = [st |-> "unborn", exitcode |-> NoExit]
    /\ exit_at = 0
    /\ lingering = 0
    /\ log_queue = <<>>
    /\ pid_queue = <<>>
    /\ ext = "none"
    /\ produced = 0
    /\ delivered = <<>>
    /\ snap = [s |-> 0, e |-> 0, l |-> 0]
    /\ tree_call = NoTreeCall
    /\ input_files = <<>>
    /\ max_workers = 1
    /\ results = <<>>
    /\ batch_pc = "idle"
    /\ worker_run = NoWorkerRun

\* ---- the clock ----
Tick ==
    /\ pc \notin {"dispatch", "done", "aborted"}
    /\ elapsed < MaxElapsed
    /\ elapsed' = elapsed + 1
    /\ UNCHANGED <<driver, idx, pc, success_count, error_count,
                   error_files_list, excel_pid, p, exit_at, lingering,
                   log_queue, pid_queue, ext, produced, delivered, snap, tree_call>>
    /\ UNCHANGED convvars

\* ---- the worker process (convert_worker and the converters) ----

\* logging through the QueueHandler installed by get_queue_logger; records
\* numbered MaxLog and above are not told apart
WorkerLog ==
    /\ CanRun
    /\ Len(log_queue) < MaxQueue
    /\ LET n == IF produced < MaxLog THEN produced + 1 ELSE MaxLog
       IN  /\ log_queue' = Append(log_queue, [task |-> idx, n |-> n])
           /\ produced' = n
    /\ UNCHANGED <<driver, idx, pc, success_count, error_count,
                   error_files_list, excel_pid, elapsed, p, exit_at,
                   lingering, pid_queue, ext, delivered, snap, tree_call>>
    /\ UNCHANGED convvars

\* faulty variant: the converter reports the pid twice
PutPidMutant(queue, pid) == Append(Append(queue, pid), pid)

\* pid_queue.put(pid)
PutPid(queue, pid) == Append(queue, pid)

\* faulty variant: an exception while obtaining the pid ends the worker
PidFailureMutant(proc) == [st |-> "exited", exitcode |-> 1]

\* except Exception as e: logging.warning(...): the worker goes on
PidFailure(proc) == proc

\* DispatchEx(...) starts the Office application; the converter then puts its
\* pid on pid_queue, unless obtaining the pid fails (logged, not raised)
WorkerLaunchApp ==
    /\ CanRun
    /\ ext = "none"
    /\ ext' = "alive"
    /\ \E pid_captured \in BOOLEAN :
          IF pid_captured
          THEN pid_queue' = PutPid(pid_queue, idx) /\ p' = p
          ELSE pid_queue' = pid_queue /\ p' = PidFailure(p)
    /\ UNCHANGED <<driver, idx, pc, success_count, error_count,
                   error_files_list, excel_pid, elapsed, exit_at,
                   lingering, log_queue, produced, delivered, snap, tree_call>>
    /\ UNCHANGED convvars

\* convert_worker returns (exit status 0) or re-raises (exit status 1); the
\* converter's finally block asks the application to quit, ignoring errors
WorkerExit ==
    /\ CanRun
    /\ \E code \in WorkerExitCodes : p' = [st |-> "exited", exitcode |-> code]
    /\ exit_at' = elapsed
    /\ \E quit \in BOOLEAN : ext' = IF quit /\ ext = "alive" THEN "dead" ELSE ext
    /\ UNCHANGED <<driver, idx, pc, success_count, error_count,
                   error_files_list, excel_pid, elapsed, lingering, log_queue,
                   pid_queue, produced, delivered, snap, tree_call>>
    /\ UNCHANGED convvars

\* the operating system ends the current worker after SIGTERM or SIGKILL
WorkerDie ==
    /\ p.st \in {"terminating", "killed"}
    /\ p' = [st |-> "exited",
             exitcode |-> IF p.st = "killed" THEN 0 - SigKill ELSE 0 - SigTerm]
    /\ exit_at' = elapsed
    /\ UNCHANGED <<driver, idx, pc, success_count, error_count,
                   error_files_list, excel_pid, elapsed, lingering, log_queue,
                   pid_queue, ext, produced, delivered, snap, tree_call>>
    /\ UNCHANGED convvars

\* the operating system ends a killed worker of an earlier task
LingerDie ==
    /\ lingering > 0
    /\ lingering' = lingering - 1
    /\ UNCHANGED <<driver, idx, pc, success_count, error_count,
                   error_files_list, excel_pid, elapsed, p, exit_at, log_queue,
                   pid_queue, ext, produced, delivered, snap, tree_call>>
    /\ UNCHANGED convvars

\* ---- the batch loop (main.py 222-365, scenario_converter.py 163-254) ----

\* faulty variant: the record taken from the queue is not passed on to the sinks
HandleMutant(sink, rec) == sink

\* faulty variant: the record taken from the queue is handled twice
HandleTwiceMutant(sink, rec) == Append(Append(sink, rec), rec)

\* root_logger.handle(record): the attached sinks receive the record; a run
\* of records numbered MaxLog is kept once
Handle(sink, rec) ==
    IF Len(sink) > 0 /\ sink[Len(sink)] = rec /\ rec.n = MaxLog
    THEN sink
    ELSE Append(sink, rec)

\* one turn of "while not log_queue.empty(): record = get_nowait(); handle"
DrainOne ==
    /\ log_queue # <<>>
    /\ delivered' = Handle(delivered, Head(log_queue))
    /\ log_queue' = Tail(log_queue)

\* faulty variant: the pid queue and the pid of the task before are kept
StartWorkerMutant ==
    /\ pid_queue' = pid_queue
    /\ p' = [st |-> "running", exitcode |-> NoExit]
    /\ lingering' = IF IsAlive THEN lingering + 1 ELSE lingering
    /\ exit_at' = 0
    /\ elapsed' = 0
    /\ excel_pid' = excel_pid
    /\ ext' = "none"
    /\ produced' = 0
    /\ delivered' = <<>>
    /\ tree_call' = NoTreeCall
    /\ pc' = "loop_test"

\* pid_queue = Queue(); p = Process(...); p.start(); start_time = time.time();
\* excel_pid = None
StartWorker ==
    /\ pid_queue' = <<>>
    /\ p' = [st |-> "running", exitcode |-> NoExit]
    /\ lingering' = IF IsAlive THEN lingering + 1 ELSE lingering
    /\ exit_at' = 0
    /\ elapsed' = 0
    /\ excel_pid' = NoPid
    /\ ext' = "none"
    /\ produced' = 0
    /\ delivered' = <<>>
    /\ tree_call' = NoTreeCall
    /\ pc' = "loop_test"

\* top of the for loop of main.py; copy_to_enhanced may raise for an Excel
\* file when prepare_for_print is set
DispatchMain ==
    /\ driver = "main"
    /\ pc = "dispatch"
    /\ idx <= NumFiles
    /\ snap' = [s |-> success_count, e |-> error_count, l |-> Len(error_files_list)]
    /\ \E prepare_fails \in BOOLEAN :
          IF prepare_fails
          THEN /\ error_count' = error_count + 1
               /\ error_files_list' =
                      AppendError(error_files_list, idx, "Prepare Failed")
               /\ idx' = idx + 1
               /\ UNCHANGED <<pc, excel_pid, elapsed, p, exit_at, lingering,
                              pid_queue, ext, produced, delivered, tree_call>>
          ELSE /\ StartWorker
               /\ UNCHANGED <<idx, error_count, error_files_list>>
    /\ UNCHANGED <<driver, success_count, log_queue>>
    /\ UNCHANGED convvars

\* top of the for loop of scenario_converter.py
DispatchScenario ==
    /\ driver = "scenario"
    /\ pc = "dispatch"
    /\ idx <= NumFiles
    /\ snap' = [s |-> success_count, e |-> error_count, l |-> Len(error_files_list)]
    /\ StartWorker
    /\ UNCHANGED <<driver, idx, success_count, error_count, error_files_list,
                   log_queue>>
    /\ UNCHANGED convvars

\* while p.is_alive():
LoopTest ==
    /\ pc = "loop_test"
    /\ pc' = IF IsAlive THEN "drain" ELSE "post_drain"
    /\ UNCHANGED <<driver, idx, success_count, error_count, error_files_list,
                   excel_pid, elapsed, p, exit_at, lingering, log_queue,
                   pid_queue, ext, produced, delivered, snap, tree_call>>
    /\ UNCHANGED convvars

\* the drain inside the polling loop
LoopDrain ==
    /\ pc = "drain"
    /\ IF log_queue # <<>>
       THEN DrainOne /\ pc' = pc
       ELSE pc' = "pid_check" /\ UNCHANGED <<log_queue, delivered>>
    /\ UNCHANGED <<driver, idx, success_count, error_count, error_files_list,
                   excel_pid, elapsed, p, exit_at, lingering, pid_queue, ext,
                   produced, snap, tree_call>>
    /\ UNCHANGED convvars

\* if excel_pid is None and not pid_queue.empty(): excel_pid = get_nowait()
PidCheck ==
    /\ pc = "pid_check"
    /\ IF excel_pid = NoPid /\ pid_queue # <<>>
       THEN excel_pid' = Head(pid_queue) /\ pid_queue' = Tail(pid_queue)
       ELSE UNCHANGED <<excel_pid, pid_queue>>
    /\ pc' = "timeout_check"
    /\ UNCHANGED <<driver, idx, success_count, error_count, error_files_list,
                   elapsed, p, exit_at, lingering, log_queue, ext, produced,
                   delivered, snap, tree_call>>
    /\ UNCHANGED convvars

\* if time.time() - start_time > timeout_seconds: ... else time.sleep(0.05)
TimeoutCheck ==
    /\ pc = "timeout_check"
    /\ pc' = IF DeadlinePassed(elapsed) THEN "terminate" ELSE "sleep"
    /\ UNCHANGED <<driver, idx, success_count, error_count, error_files_list,
                   excel_pid, elapsed, p, exit_at, lingering, log_queue,
                   pid_queue, ext, produced, delivered, snap, tree_call>>
    /\ UNCHANGED convvars

\* time.sleep(0.05)
Sleep ==
    /\ pc = "sleep"
    /\ pc' = "loop_test"
    /\ UNCHANGED <<driver, idx, success_count, error_count, error_files_list,
                   excel_pid, elapsed, p, exit_at, lingering, log_queue,
                   pid_queue, ext, produced, delivered, snap, tree_call>>
    /\ UNCHANGED convvars

\* p.terminate(): SIGTERM to a worker that has not ended
Terminate ==
    /\ pc = "terminate"
    /\ p' = IF IsAlive THEN [p EXCEPT !.st = "terminating"] ELSE p
    /\ pc' = "join"
    /\ UNCHANGED <<driver, idx, success_count, error_count, error_files_list,
                   excel_pid, elapsed, exit_at, lingering, log_queue,
                   pid_queue, ext, produced, delivered, snap, tree_call>>
    /\ UNCHANGED convvars

\* p.join(timeout=5): returns when the worker has ended or 5 s have passed
JoinGrace ==
    /\ pc = "join"
    /\ elapsed' = IF IsAlive THEN MaxElapsed ELSE elapsed
    /\ pc' = "kill_check"
    /\ UNCHANGED <<driver, idx, success_count, error_count, error_files_list,
                   excel_pid, p, exit_at, lingering, log_queue, pid_queue, ext,
                   produced, delivered, snap, tree_call>>
    /\ UNCHANGED convvars

\* faulty variant: p.kill() is issued without looking at p.is_alive()
KillCheckMutant ==
    /\ pc = "kill_check"
    /\ p' = [p EXCEPT !.st = "killed"]
    /\ pc' = "tree_kill"
    /\ UNCHANGED <<driver, idx, success_count, error_count, error_files_list,
                   excel_pid, elapsed, exit_at, lingering, log_queue,
                   pid_queue, ext, produced, delivered, snap, tree_call>>
    /\ UNCHANGED convvars

\* if p.is_alive(): p.kill()
KillCheck ==
    /\ pc = "kill_check"
    /\ p' = IF IsAlive THEN [p EXCEPT !.st = "killed"] ELSE p
    /\ pc' = "tree_kill"
    /\ UNCHANGED <<driver, idx, success_count, error_count, error_files_list,
                   excel_pid, elapsed, exit_at, lingering, log_queue,
                   pid_queue, ext, produced, delivered, snap, tree_call>>
    /\ UNCHANGED convvars

\* ---- kill_process_tree (main.py 71-81, scenario_converter.py 40-52) ----

\* what one kill attempt meets: the process is killed, it has ended in the
\* meantime (psutil.NoSuchProcess), or the kill fails with another exception
\* (psutil.AccessDenied, OSError, ...)
KillOutcomes == {"ok", "gone", "denied"}

\* faulty variant: main.py's except clause does not match psutil.NoSuchProcess
CaughtMutant(d, oc) == d = "scenario"

\* main.py catches psutil.NoSuchProcess only, scenario_converter.py everything
Caught(d, oc) == oc = "gone" \/ d = "scenario"

\* scenario_converter.py wraps child.kill() in its own try/except; in main.py
\* an exception of child.kill() leaves the for loop and the function body
ChildFailureEndsCall(d) == d = "main"

\* found: psutil.Process(pid) finds the process (it raises NoSuchProcess
\* otherwise); hasChild: children() lists a descendant; co: outcome of
\* child.kill(); ro: outcome of parent.kill()
KillProcessTree(d, found, hasChild, co, ro) ==
    LET triedChild == found /\ hasChild
        childFailed == triedChild /\ co # "ok"
        triedRoot == found /\ ~(childFailed /\ ChildFailureEndsCall(d))
        rootFailed == triedRoot /\ ro # "ok"
    IN  [rootEnded |-> triedRoot /\ ro \in {"ok", "gone"},
         triedChild |-> triedChild,
         triedRoot |-> triedRoot,
         raised |-> \/ ~found /\ ~Caught(d, "gone")
                    \/ childFailed /\ ~Caught(d, co)
                    \/ rootFailed /\ ~Caught(d, ro)]

\* the Office application after a call of kill_process_tree with result r
ExtAfter(e, r) == IF r.rootEnded THEN "dead" ELSE e

\* faulty variant: the pid is not looked at before kill_process_tree is called
PidCapturedMutant(pid) == TRUE

\* if excel_pid:
PidCaptured(pid) == pid # NoPid

\* if excel_pid: kill_process_tree(excel_pid)
TreeKill ==
    /\ pc = "tree_kill"
    /\ IF PidCaptured(excel_pid)
       THEN \E hasChild \in BOOLEAN, co \in KillOutcomes, ro \in KillOutcomes :
               LET r == KillProcessTree(driver, ext = "alive", hasChild, co, ro)
               IN  /\ ext' = ExtAfter(ext, r)
                   /\ tree_call' = [called |-> TRUE, found |-> ext = "alive",
                                    raised |-> r.raised,
                                    child |-> IF r.triedChild THEN co
                                              ELSE "none",
                                    triedRoot |-> r.triedRoot]
                   /\ pc' = IF r.raised THEN "aborted" ELSE "count_timeout"
       ELSE pc' = "count_timeout" /\ UNCHANGED <<ext, tree_call>>
    /\ UNCHANGED <<driver, idx, success_count, error_count, error_files_list,
                   excel_pid, elapsed, p, exit_at, lingering, log_queue,
                   pid_queue, produced, delivered, snap>>
    /\ UNCHANGED convvars

\* error_count += 1; error_files_list.append(... (Timeout)); break
CountTimeout ==
    /\ pc = "count_timeout"
    /\ error_count' = error_count + 1
    /\ error_files_list' = AppendError(error_files_list, idx, "Timeout")
    /\ pc' = "post_drain"
    /\ UNCHANGED <<driver, idx, success_count, excel_pid, elapsed, p, exit_at,
                   lingering, log_queue, pid_queue, ext, produced, delivered,
                   snap, tree_call>>
    /\ UNCHANGED convvars

\* faulty variant: the queue is not drained after the polling loop
PostDrainMutant ==
    /\ pc = "post_drain"
    /\ pc' = "result"
    /\ UNCHANGED <<driver, idx, success_count, error_count, error_files_list,
                   excel_pid, elapsed, p, exit_at, lingering, log_queue,
                   pid_queue, ext, produced, delivered, snap, tree_call>>
    /\ UNCHANGED convvars

\* the drain after the polling loop
PostDrain ==
    /\ pc = "post_drain"
    /\ IF log_queue # <<>>
       THEN DrainOne /\ pc' = pc
       ELSE pc' = "result" /\ UNCHANGED <<log_queue, delivered>>
    /\ UNCHANGED <<driver, idx, success_count, error_count, error_files_list,
                   excel_pid, elapsed, p, exit_at, lingering, pid_queue, ext,
                   produced, snap, tree_call>>
    /\ UNCHANGED convvars

\* whether a driver, looking at a worker with is_alive() = alive and exit
\* status code, the clock test giving late, counts a success; main.py 326-332,
\* scenario_converter.py 235-241
CountsSuccess(d, alive, late, code) == ~alive /\ ~late /\ code = 0

\* whether it counts a crash; notListed: the "(Timeout)" entry of the file is
\* not in error_files_list; main.py 351-363, scenario_converter.py 235-252
CountsCrash(d, alive, late, code, notListed) ==
    IF d = "main"
    THEN notListed /\ code # 0
    ELSE ~alive /\ ~late /\ code # 0

\* main.py 326-340: if not p.is_alive(): if elapsed <= timeout: p.join();
\* if p.exitcode == 0: success_count += 1
ResultMain ==
    /\ driver = "main"
    /\ pc = "result"
    /\ success_count' =
           IF CountsSuccess("main", IsAlive, DeadlinePassed(elapsed), p.exitcode)
           THEN success_count + 1 ELSE success_count
    /\ pc' = "crash_check"
    /\ UNCHANGED <<driver, idx, error_count, error_files_list, excel_pid,
                   elapsed, p, exit_at, lingering, log_queue, pid_queue, ext,
                   produced, delivered, snap, tree_call>>
    /\ UNCHANGED convvars

\* main.py 351-363: if the "(Timeout)" entry is not in error_files_list:
\* if p.exitcode != 0: error_count += 1; error_files_list.append(input_path)
CrashCheck ==
    /\ driver = "main"
    /\ pc = "crash_check"
    /\ IF CountsCrash("main", IsAlive, DeadlinePassed(elapsed), p.exitcode,
                      TimeoutNotListed(error_files_list, idx))
       THEN /\ error_count' = error_count + 1
            /\ error_files_list' = AppendError(error_files_list, idx, "")
       ELSE UNCHANGED <<error_count, error_files_list>>
    /\ pc' = "advance"
    /\ UNCHANGED <<driver, idx, success_count, excel_pid, elapsed, p, exit_at,
                   lingering, log_queue, pid_queue, ext, produced, delivered,
                   snap, tree_call>>
    /\ UNCHANGED convvars

\* scenario_converter.py 235-252
ResultScenario ==
    /\ driver = "scenario"
    /\ pc = "result"
    /\ LET late == DeadlinePassed(elapsed)
           notListed == TimeoutNotListed(error_files_list, idx)
       IN  IF CountsSuccess("scenario", IsAlive, late, p.exitcode)
           THEN /\ success_count' = success_count + 1
                /\ UNCHANGED <<error_count, error_files_list>>
           ELSE IF CountsCrash("scenario", IsAlive, late, p.exitcode, notListed)
           THEN /\ error_count' = error_count + 1
                /\ error_files_list' = AppendError(error_files_list, idx, "")
                /\ UNCHANGED success_count
           ELSE UNCHANGED <<success_count, error_count, error_files_list>>
    /\ pc' = "advance"
    /\ UNCHANGED <<driver, idx, excel_pid, elapsed, p, exit_at, lingering,
                   log_queue, pid_queue, ext, produced, delivered, snap, tree_call>>
    /\ UNCHANGED convvars

\* progress.advance(task), on to the next file
Advance ==
    /\ pc = "advance"
    /\ idx' = idx + 1
    /\ pc' = "dispatch"
    /\ UNCHANGED <<driver, success_count, error_count, error_files_list,
                   excel_pid, elapsed, p, exit_at, lingering, log_queue,
                   pid_queue, ext, produced, delivered, snap, tree_call>>
    /\ UNCHANGED convvars

\* the for loop is exhausted: print_summary
Finish ==
    /\ pc = "dispatch"
    /\ idx > NumFiles
    /\ pc' = "done"
    /\ UNCHANGED <<driver, idx, success_count, error_count, error_files_list,
                   excel_pid, elapsed, p, exit_at, lingering, log_queue,
                   pid_queue, ext, produced, delivered, snap, tree_call>>
    /\ UNCHANGED convvars

Supervisor ==
    \/ DispatchMain \/ DispatchScenario \/ LoopTest \/ LoopDrain \/ PidCheck
    \/ TimeoutCheck \/ Sleep \/ Terminate \/ JoinGrace \/ KillCheck \/ TreeKill
    \/ CountTimeout \/ PostDrain \/ ResultMain \/ CrashCheck \/ ResultScenario
    \/ Advance \/ Finish

Worker == WorkerLog \/ WorkerLaunchApp \/ WorkerExit

Reaper == WorkerDie \/ LingerDie

Next == Supervisor \/ Worker \/ Reaper \/ Tick

Spec == Init /\ [][Next]_vars

\* The parent keeps running, the clock advances and a signalled worker that
\* does not exit by itself is eventually ended by the operating system.  The
\* worker's own steps are not fair: it may hang.
FairSpec ==
    Spec /\ WF_vars(Supervisor) /\ WF_vars(Tick) /\ WF_vars(Reaper)

\* ---- uses of OfficeConverter ----

\* a caller holds a list of files and a worker count (NoWorkers: the default)
ConvInit ==
    /\ driver = "main"
    /\ idx = 1
    /\ pc = "dispatch"
    /\ success_count = 0
    /\ error_count = 0
    /\ error_files_list = <<>>
    /\ excel_pid = NoPid
    /\ elapsed = 0
    /\ p = [st |-> "unborn", exitcode |-> NoExit]
    /\ exit_at = 0
    /\ lingering = 0
    /\ log_queue = <<>>
    /\ pid_queue = <<>>
    /\ ext = "none"
    /\ produced = 0
    /\ delivered = <<>>
    /\ snap = [s |-> 0, e |-> 0, l |-> 0]
    /\ tree_call = NoTreeCall
    /\ \E n \in 0..MaxBatch : input_files \in [1..n -> SampleFiles]
    /\ max_workers \in {NoWorkers} \cup 1..MaxWorkers
    /\ results = <<>>
    /\ batch_pc = "idle"
    /\ worker_run = NoWorkerRun

\* convert_batch up to "Execute conversions": an empty list is returned at
\* once; max_workers == 1 or a single task selects the sequential branch
BatchStart ==
    /\ batch_pc = "idle"
    /\ batch_pc' = IF input_files = <<>> THEN "returned"
                   ELSE IF max_workers = 1 \/ Len(input_files) = 1
                        THEN "sequential" ELSE "parallel"
    /\ UNCHANGED <<input_files, max_workers, results, worker_run>>
    /\ UNCHANGED supvars

\* one turn of "for input_file, output_path in tasks: result = self.convert(
\* input_file, output_path); results.append(result)"
ConvertNext ==
    /\ Len(results) < Len(input_files)
    /\ LET f == input_files[Len(results) + 1]
           c == Convert(f, PdfPath(f.path))
       IN  IF c.raised
           THEN batch_pc' = "raised" /\ UNCHANGED results
           ELSE results' = AppendResult(results, c.value) /\ UNCHANGED batch_pc
    /\ UNCHANGED <<input_files, max_workers, worker_run>>
    /\ UNCHANGED supvars

\* the loop of the sequential branch
BatchSequential == batch_pc = "sequential" /\ ConvertNext

\* the loop of the parallel branch, which converts one file after the other too
BatchParallel == batch_pc = "parallel" /\ ConvertNext

\* return results
BatchReturn ==
    /\ batch_pc \in {"sequential", "parallel"}
    /\ Len(results) = Len(input_files)
    /\ batch_pc' = "returned"
    /\ UNCHANGED <<input_files, max_workers, results, worker_run>>
    /\ UNCHANGED supvars

\* a worker process runs convert_worker on the first file and ends
RunWorker ==
    /\ batch_pc = "idle"
    /\ input_files # <<>>
    /\ \E setup_raises \in BOOLEAN :
          worker_run' = ConvertWorker(input_files[1], setup_raises)
    /\ batch_pc' = "worker_exited"
    /\ UNCHANGED <<input_files, max_workers, results>>
    /\ UNCHANGED supvars

ConvNext ==
    BatchStart \/ BatchSequential \/ BatchParallel \/ BatchReturn \/ RunWorker

ConverterSpec == ConvInit /\ [][ConvNext]_vars

TypeOK ==
    /\ driver \in Drivers
    /\ idx \in 1..(NumFiles + 1)
    /\ success_count \in 0..NumFiles
    /\ error_count \in 0..(2 * NumFiles)
    /\ elapsed \in 0..MaxElapsed
    /\ excel_pid \in {NoPid} \cup Files
    /\ Len(log_queue) <= MaxQueue
    /\ Len(pid_queue) <= 1
    /\ lingering \in 0..NumFiles

\* ---- properties ----

\* what the current pass has added to the counters and to the error list
DeltaSuccess == success_count - snap.s
DeltaError == error_count - snap.e
DeltaList == Len(error_files_list) - snap.l

\* the pass over file idx is complete, progress.advance comes next
PassEnd == pc = "advance"

EntriesOf(f) == {i \in 1..Len(error_files_list) : error_files_list[i].file = f}

\* C1: no double counting.  One pass of the supervision loop adds at most 1 to
\* success_count + error_count, each counter moves by 0 or 1, and at most one
\* entry per file is appended to error_files_list: a task is never counted as
\* timeout and crash, nor as success and error.
C1_NoDoubleCounting ==
    /\ DeltaSuccess \in {0, 1}
    /\ DeltaError \in {0, 1}
    /\ DeltaSuccess + DeltaError <= 1
    /\ DeltaList \in {0, 1}
    /\ \A f \in Files : Cardinality(EntriesOf(f)) <= 1

\* C1 witness: a task counted as timeout whose worker ended with a non-zero
\* status (SIGTERM or its own failure), the case a second count could come from
C1_Witness ==
    /\ PassEnd
    /\ ~TimeoutNotListed(error_files_list, idx)
    /\ p.st = "exited" /\ p.exitcode # 0
    /\ DeltaError = 1

\* C2: at the end of every pass success_count + error_count equals the number
\* of files processed so far, and equals NumFiles after the batch.
C2_EveryTaskCounted ==
    /\ PassEnd => success_count + error_count = idx
    /\ pc = "done" => success_count + error_count = NumFiles

\* C3: a worker that exits with status 0 before its deadline is counted as a
\* success: success_count + 1, error_count and error_files_list unchanged.
C3_ExitZeroInTimeIsSuccess ==
    (PassEnd /\ p.st = "exited" /\ p.exitcode = 0 /\ exit_at < TimeoutTicks)
        => (DeltaSuccess = 1 /\ DeltaError = 0 /\ DeltaList = 0)

\* C4: a worker that exits with a non-zero status before its deadline is
\* counted as a failure: error_count + 1, the file appended without the
\* (Timeout) label, success_count unchanged.
C4_ExitNonZeroInTimeIsFailure ==
    (PassEnd /\ p.st = "exited" /\ p.exitcode = 1 /\ exit_at < TimeoutTicks)
        => /\ DeltaError = 1
           /\ DeltaSuccess = 0
           /\ DeltaList = 1
           /\ error_files_list[Len(error_files_list)] = Entry(idx, "")

\* the current worker was alive at a moment when the deadline had passed
AliveAfterDeadline == IsAlive \/ (p.st = "exited" /\ exit_at > TimeoutTicks)

\* C5: a worker still alive after the deadline is counted as timed out
\* (error_count + 1 with a (Timeout) entry) and never as a success.
C5_AliveAfterDeadlineIsTimedOut ==
    (PassEnd /\ AliveAfterDeadline)
        => /\ DeltaError = 1
           /\ DeltaSuccess = 0
           /\ ~TimeoutNotListed(error_files_list, idx)

\* C6: when the supervision of a timed-out task is over, the worker is not
\* alive and the Office application whose pid it put on pid_queue is not
\* alive either.
C6_TimedOutLeavesNothingAlive ==
    (PassEnd /\ ~TimeoutNotListed(error_files_list, idx))
        => (~IsAlive /\ (PidWasPut => ext # "alive"))

\* the records a worker that logged n times has put on log_queue, in order
Enqueued(n) == [i \in 1..n |-> [task |-> idx, n |-> i]]

IsPrefix(a, b) == Len(a) <= Len(b) /\ \A i \in 1..Len(a) : a[i] = b[i]

\* C7: the sinks receive the records of a worker in the order it enqueued them,
\* without gap or reordering, and by the end of the pass they have received
\* all of them, the ones enqueued after the last in-loop drain included.
C7_LogOrderPreserved ==
    /\ pc \notin {"dispatch", "done"} => IsPrefix(delivered, Enqueued(produced))
    /\ PassEnd => (delivered = Enqueued(produced) /\ log_queue = <<>>)

\* C7 witness: the worker has exited by itself, the in-loop drains delivered a
\* first record and a later one is left for the drain after the loop
C7_Witness ==
    /\ pc = "post_drain"
    /\ p.st = "exited" /\ p.exitcode \in {0, 1}
    /\ delivered # <<>>
    /\ log_queue # <<>>

\* the batch loop is inside "while p.is_alive():"
InPollingLoop == pc \in {"loop_test", "drain", "pid_check", "timeout_check", "sleep"}

\* C8: forward progress.  Whatever the worker does (exit, crash, hang, an
\* endless stream of log records), the polling loop of its task is eventually
\* left, so that the batch loop can go on to the next file and finish.
C8_PollingLoopExits == InPollingLoop ~> ~InPollingLoop

\* C9: no exception caused by a task escapes the batch loop.
C9_NoExceptionEscapes == pc # "aborted"

\* C10: at every moment at most one worker process is alive.
C10_AtMostOneWorkerAlive == lingering + (IF IsAlive THEN 1 ELSE 0) <= 1

\* the files of the entries of error_files_list, in list order
ListedFiles == [i \in 1..Len(error_files_list) |-> error_files_list[i].file]

CallResults(d, e) ==
    {KillProcessTree(d, e = "alive", h, co, ro) :
        h \in BOOLEAN, co \in KillOutcomes, ro \in KillOutcomes}

\* the call with result r raised nothing and attempted no kill
Harmless(r) == ~r.raised /\ ~r.triedChild /\ ~r.triedRoot

\* C12: kill_process_tree on a pid whose process no longer exists returns
\* normally, whether it is called once or twice in a row, it attempts no kill,
\* and it changes neither success_count, error_count nor error_files_list.
C12_KillDeadPidIsHarmless ==
    /\ (tree_call.called /\ ~tree_call.found) => ~tree_call.raised
    /\ (pc = "count_timeout" /\ tree_call.called /\ ~tree_call.found)
          => (DeltaSuccess = 0 /\ DeltaError = 0 /\ DeltaList = 0 /\ ext = "dead")
    /\ (excel_pid # NoPid /\ ext = "dead")
          => \A r1 \in CallResults(driver, ext) :
                /\ Harmless(r1)
                /\ ExtAfter(ext, r1) = ext
                /\ \A r2 \in CallResults(driver, ExtAfter(ext, r1)) :
                      Harmless(r2) /\ ExtAfter(ext, r2) = ext

\* C12 witness: the timeout branch has just called kill_process_tree on the
\* captured pid of an application that had already quit
C12_Witness ==
    /\ pc = "count_timeout"
    /\ tree_call.called
    /\ ~tree_call.found
    /\ ext = "dead"

\* C13: kill_process_tree never raises past its own boundary, whatever the
\* lookup, the enumeration of descendants and each kill attempt meet.
C13_KillProcessTreeNeverRaises == ~tree_call.raised

\* is_supported, get_converter and the requested output path of every sample
\* path
Supported == [n \in SamplePaths |-> IsSupported(n)]
Selected == [n \in SamplePaths |-> GetConverter(n)]
Requested == [n \in SamplePaths |-> PdfPath(n)]

\* the conversion of f failed in one of the ways convert reports as a value:
\* missing input file, unsupported extension, exception of the converter
ReportedFailure(f) ==
    f.env = "missing" \/ ~Supported[f.path] \/ f.env = "converter"

\* r is what convert(f.path, Requested[f.path]) is to return
ResultAsClaimed(f, r) ==
    /\ ReportedFailure(f)
          => (~r.success /\ r.error # None /\ r.output_path = NoPath)
    /\ r.success => (r.error = None /\ r.output_path = Requested[f.path])
    /\ r.success <=> ~ReportedFailure(f)
    /\ ~(r.success /\ r.error # None)

\* C14: convert_worker ends its process with exit status 0 exactly when
\* OfficeConverter.convert returned a result with success == True; a result
\* with success == False and any exception in the worker (setup, converter
\* construction, conversion) give a non-zero exit status.
C14_WorkerExitStatus ==
    batch_pc = "worker_exited"
        => /\ worker_run.exitcode \in {0, 1}
           /\ worker_run.exitcode = 0
                 <=> /\ worker_run.called
                     /\ ~worker_run.conv.raised
                     /\ worker_run.conv.value.success

\* C14 witness: convert returned a result with success == False and the worker
\* process ended with status 1
C14_Witness ==
    /\ batch_pc = "worker_exited"
    /\ worker_run.called
    /\ ~worker_run.conv.raised
    /\ ~worker_run.conv.value.success
    /\ worker_run.exitcode = 1

TypeOfExt(e) ==
    IF e \in ExcelExts THEN "excel"
    ELSE IF e \in WordExts THEN "word"
    ELSE IF e \in PowerPointExts THEN "powerpoint" ELSE None

\* the file type of every sample path
ExpectedType == [n \in SamplePaths |-> TypeOfExt(Lower(Suffix(n)))]

\* C17: is_supported(path) is True exactly when get_converter(path) returns a
\* converter; the file type returned is excel, word or powerpoint according to
\* the lower-cased extension, and an unsupported extension gives (None, None).
C17_SelectionMatchesSupport ==
    /\ \A i \in 1..Len(input_files) :
          LET path == input_files[i].path
          IN  /\ Supported[path] <=> Selected[path][1] # None
              /\ Selected[path][2] = ExpectedType[path]
              /\ ~Supported[path] => Selected[path] = <<None, None>>
    /\ \A i \in 1..Len(results) :
          results[i].success
              => /\ Supported[input_files[i].path]
                 /\ results[i].file_type = ExpectedType[input_files[i].path]

\* C17 witness: a batch held b.XLS, converted by the Excel converter, and
\* e.txt, turned down as unsupported
C17_Witness ==
    /\ batch_pc = "returned"
    /\ \E i \in 1..Len(results) :
          /\ input_files[i].path = <<"b", ".", "X", "L", "S">>
          /\ results[i].success
          /\ results[i].file_type = "excel"
    /\ \E i \in 1..Len(results) :
          /\ input_files[i].path = <<"e", ".", "t", "x", "t">>
          /\ results[i].error = "Unsupported file type"

\* the polling loop of the finished pass was left because p.is_alive() was
\* False, not through the break of the timeout branch
LeftBySelfExit == PassEnd /\ TimeoutNotListed(error_files_list, idx)

\* C18: when the polling loop ends because the worker is no longer alive, the
\* exit status alone decides: 0 is counted as a success, anything else as a
\* failure, whatever the elapsed time is when the result is looked at.
C18_SelfExitDecidedByExitStatus ==
    LeftBySelfExit
        => /\ p.st = "exited"
           /\ p.exitcode = 0 => (DeltaSuccess = 1 /\ DeltaError = 0)
           /\ p.exitcode # 0 => (DeltaSuccess = 0 /\ DeltaError = 1)

TookTimeoutBranch ==
    \/ pc \in {"terminate", "join", "kill_check", "tree_kill", "count_timeout",
               "aborted"}
    \/ /\ pc \in {"post_drain", "result", "crash_check", "advance"}
       /\ ~TimeoutNotListed(error_files_list, idx)

\* C20: kill_process_tree is called only in the timeout branch and only with
\* a captured pid: a task that times out without a captured pid has its worker
\* terminated and no call is made, and a task whose worker exits by itself
\* never leads to a call.
C20_TreeKillOnlyOnTimeoutWithPid ==
    /\ tree_call.called => (excel_pid # NoPid /\ DeadlinePassed(elapsed))
    /\ (tree_call.called /\ pc \notin {"dispatch", "done"}) => TookTimeoutBranch
    /\ (TookTimeoutBranch /\ excel_pid = NoPid) => ~tree_call.called
    /\ (PassEnd /\ TookTimeoutBranch /\ excel_pid = NoPid)
          => p.st \in {"killed", "exited"}
    /\ LeftBySelfExit => ~tree_call.called

\* C20 witness: a task timed out before any pid was captured; its worker was
\* terminated and kill_process_tree was not called
C20_Witness ==
    /\ PassEnd
    /\ TookTimeoutBranch
    /\ excel_pid = NoPid
    /\ ext = "alive"
    /\ ~tree_call.called

\* C21: kill_process_tree on an existing process attempts to kill the
\* descendants and then the process itself; a descendant that has exited when
\* its kill is attempted does not keep the root from being killed.
C21_TreeKillReachesRoot ==
    (tree_call.called /\ tree_call.found
        /\ tree_call.child \in {"none", "ok", "gone"})
        => tree_call.triedRoot

\* the pids the current task's worker has reported: still queued or captured
PidsReported == Len(pid_queue) + (IF excel_pid # NoPid THEN 1 ELSE 0)

\* C22: a worker reports at most one pid; the batch loop takes a pid from
\* pid_queue only while excel_pid is None, and a captured pid is neither
\* overwritten nor cleared until the next task is started.
C22_PidCapturedAtMostOnce ==
    [][/\ PidsReported <= 1
       /\ PidsReported' <= 1
       /\ (excel_pid # NoPid /\ pc # "dispatch") => excel_pid' = excel_pid
       /\ (Len(pid_queue') < Len(pid_queue) /\ pc # "dispatch")
             => (excel_pid = NoPid /\ excel_pid' = Head(pid_queue))
      ]_vars

\* C22 witness: the pid was captured and the polling loop goes on with the
\* pid queue empty
C22_Witness ==
    /\ pc = "sleep"
    /\ excel_pid = idx
    /\ pid_queue = <<>>
    /\ IsAlive

\* the current worker was sent SIGTERM or SIGKILL by the batch loop
SignalledBySupervisor ==
    \/ p.st \in {"terminating", "killed"}
    \/ p.st = "exited" /\ p.exitcode \in {0 - SigTerm, 0 - SigKill}

\* C23: the deadline is the only reason for a cancellation: p.terminate,
\* p.kill and kill_process_tree happen only in a turn of the polling loop whose
\* timeout check found the elapsed time strictly greater than the timeout, and
\* no worker is signalled while elapsed <= timeout.
C23_DeadlineSoleCancellationTrigger ==
    [][/\ (pc' = "terminate" /\ pc # "terminate")
             => (pc = "timeout_check" /\ elapsed > TimeoutTicks)
       /\ (pc \in {"terminate", "join", "kill_check", "tree_kill"})
             => elapsed > TimeoutTicks
       /\ (p'.st \in {"terminating", "killed"} /\ p'.st # p.st)
             => (pc \in {"terminate", "kill_check"} /\ elapsed > TimeoutTicks)
       /\ (tree_call'.called /\ ~tree_call.called)
             => (pc = "tree_kill" /\ elapsed > TimeoutTicks)
       /\ SignalledBySupervisor => elapsed > TimeoutTicks
      ]_vars

\* C23 witness: the timeout check saw the deadline passed, SIGTERM was sent
\* and the batch loop waits for the worker
C23_Witness ==
    /\ pc = "join"
    /\ p.st = "terminating"
    /\ elapsed > TimeoutTicks

\* the batch loop is between the end of one supervision and the next spawn
BetweenTasks == pc \in {"advance", "dispatch", "done"}

\* C24: no cross-task interleaving on log_queue.  Once the batch loop has left
\* the polling loop no worker can enqueue any more, the workers of earlier
\* tasks that are still alive are killed ones that run nothing, every record
\* queued or delivered during a task is a record of that task's worker, and
\* the queue is empty when the next worker is spawned.
C24_NoCrossTaskLogInterleaving ==
    /\ (pc \notin {"dispatch", "done"})
          => /\ \A i \in 1..Len(log_queue) : log_queue[i].task = idx
             /\ \A i \in 1..Len(delivered) : delivered[i].task = idx
    /\ BetweenTasks => (log_queue = <<>> /\ ~CanRun)
    /\ pc \in {"post_drain", "result", "crash_check"} => ~CanRun

\* C24 witness: the worker of the first task was killed after its timeout and
\* is still alive while a record of the second task's worker is delivered
C24_Witness ==
    /\ idx = 2
    /\ lingering = 1
    /\ pc = "pid_check"
    /\ delivered # <<>>

\* the application of the current task runs or ran and no pid was reported
LaunchedWithoutPid == ext # "none" /\ pid_queue = <<>> /\ excel_pid = NoPid

\* C25: pid capture is best-effort.  When a converter fails to obtain or send
\* the pid of the application it started, the worker goes on unharmed, and the
\* batch loop captures no pid for that task.
C25_PidCaptureBestEffort ==
    [][/\ (ext = "none" /\ ext' # "none") => (p' = p /\ CanRun')
       /\ (LaunchedWithoutPid /\ pc # "dispatch") => LaunchedWithoutPid'
      ]_vars

\* C25 witness: the application was started, no pid was ever reported, the
\* worker exited with status 0 and the task was counted as a success
C25_Witness ==
    /\ PassEnd
    /\ LaunchedWithoutPid
    /\ p.st = "exited" /\ p.exitcode = 0
    /\ DeltaSuccess = 1
    /\ DeltaError = 0

\* the sinks went from before to after by receiving rec once (a run of records
\* numbered MaxLog shows as one)
ReceivedOnce(before, after, rec) ==
    \/ after = Append(before, rec)
    \/ /\ rec.n = MaxLog
       /\ before # <<>>
       /\ before[Len(before)] = rec
       /\ after = before

\* C26: every record the batch loop takes from log_queue is passed to
\* root_logger.handle exactly once, in the drains inside and after the polling
\* loop: none is dropped, none is handled twice, and nothing reaches the sinks
\* that was not taken from the queue.
C26_EveryRecordHandledOnce ==
    [][/\ Len(log_queue') < Len(log_queue)
             => /\ pc \in {"drain", "post_drain"}
                /\ log_queue' = Tail(log_queue)
                /\ ReceivedOnce(delivered, delivered', Head(log_queue))
       /\ (delivered' # delivered /\ pc # "dispatch")
             => Len(log_queue') < Len(log_queue)
      ]_vars

\* C26 witness: the worker has exited and the drains of its pass have handed
\* two records to the sinks
C26_Witness ==
    /\ pc = "result"
    /\ Len(delivered) >= 2
    /\ log_queue = <<>>
    /\ p.st = "exited"

\* C27: len(error_files_list) == error_count at every boundary of the batch
\* loop; each step that counts an error adds one to error_count and appends
\* one entry, and no other step, a counted success among them, touches the
\* list.
C27_ErrorCountMatchesList ==
    [][/\ (pc \in {"dispatch", "advance", "done"})
             => Len(error_files_list) = error_count
       /\ \/ /\ error_count' = error_count + 1
             /\ Len(error_files_list') = Len(error_files_list) + 1
             /\ SubSeq(error_files_list', 1, Len(error_files_list))
                    = error_files_list
             /\ success_count' = success_count
          \/ /\ error_count' = error_count
             /\ error_files_list' = error_files_list
      ]_vars

\* C27 witness: the batch is over with two errors of different kinds counted
\* and listed
C27_Witness ==
    /\ pc = "done"
    /\ error_count = 2
    /\ Len(error_files_list) = 2
    /\ error_files_list[1].label # error_files_list[2].label

\* a step of the for loop of main.py that takes the prepare-failure branch
PrepareFailedStep == pc = "dispatch" /\ idx' # idx

\* C28: when copy_to_enhanced raises, the file is counted as one error with a
\* (Prepare Failed) entry, success_count is unchanged, no worker is spawned,
\* and the for loop moves on by one file and dispatches the next.
C28_PrepareFailureIsOneError ==
    [][PrepareFailedStep
          => /\ driver = "main"
             /\ error_count' = error_count + 1
             /\ error_files_list' =
                    Append(error_files_list,
                           [file |-> idx, label |-> "Prepare Failed"])
             /\ success_count' = success_count
             /\ p' = p /\ lingering' = lingering /\ pid_queue' = pid_queue
             /\ idx' = idx + 1
             /\ pc' = "dispatch"
      ]_vars

\* C28 witness: the first file failed to be prepared: one error is counted
\* and listed, no worker was started, and the second file comes next
C28_Witness ==
    /\ idx = 2
    /\ pc = "dispatch"
    /\ error_files_list = <<[file |-> 1, label |-> "Prepare Failed"]>>
    /\ error_count = 1
    /\ success_count = 0
    /\ p.st = "unborn"

\* C29: the pid handed to kill_process_tree is the one the current task's
\* worker reported: every task starts with a new, empty pid queue and with no
\* pid captured, whatever is queued or captured during a task is the pid of
\* that task's application, and so is the pid of a tree-kill.
C29_CapturedPidIsFresh ==
    [][/\ (pc = "dispatch" /\ pc' = "loop_test")
             => (excel_pid' = NoPid /\ pid_queue' = <<>>)
       /\ (pc \notin {"dispatch", "done"})
             => /\ excel_pid \in {NoPid, idx}
                /\ \A i \in 1..Len(pid_queue) : pid_queue[i] = idx
       /\ (tree_call'.called /\ ~tree_call.called) => excel_pid = idx
      ]_vars

\* C29 witness: the first task timed out with its pid captured, and in the
\* second task kill_process_tree was called with the second task's pid
C29_Witness ==
    /\ idx = 2
    /\ pc = "count_timeout"
    /\ tree_call.called
    /\ excel_pid = 2
    /\ error_files_list = <<Entry(1, "Timeout")>>

\* C30: the two batch drivers are equivalent.  For the worker the batch loop
\* looks at after the polling loop (alive or not, exit status, timed out or
\* not) and the time of that look, main.py and scenario_converter.py count a
\* success in the same cases and count a crash, with an unlabelled entry, in
\* the same cases.
C30_DriversEquivalent ==
    pc = "result"
        => LET late == DeadlinePassed(elapsed)
               notListed == TimeoutNotListed(error_files_list, idx)
           IN  /\ CountsSuccess("main", IsAlive, late, p.exitcode)
                     <=> CountsSuccess("scenario", IsAlive, late, p.exitcode)
               /\ CountsCrash("main", IsAlive, late, p.exitcode, notListed)
                     <=> CountsCrash("scenario", IsAlive, late, p.exitcode,
                                     notListed)

====
